---- MODULE Spec2Model ----
(***************************************************************************)
(* Precision-landing backend (app/main.py): the control loop task          *)
(* start_precision_landing_internal, the start/stop/status request         *)
(* handlers and the startup auto-restart, run by one asyncio event loop.   *)
(*                                                                         *)
(* The event loop is modelled as asyncio runs it: a FIFO ready queue that  *)
(* is drained in batches; new requests and expired timers join the queue   *)
(* only between two batches, a task made by create_task joins it at once.  *)
(* A coroutine runs without interruption from one await to the next: the   *)
(* only awaits of the program are the asyncio.sleep calls.                 *)
(*                                                                         *)
(* Times are in milliseconds.  Every time.time() read of one uninterrupted *)
(* run of a coroutine returns the same clock reading.  The code reads its  *)
(* timestamps only in differences to time.time(), so the model keeps them  *)
(* relative to the current clock reading: time.time() is Now, a timestamp  *)
(* taken earlier is negative, and a tick of the clock moves every          *)
(* timestamp one tick into the past, down to Horizon, beyond which no      *)
(* comparison of the code tells two timestamps apart.                      *)
(***************************************************************************)
EXTENDS Integers, Sequences, FiniteSets, TLC

\* ---------------------------------------------------------------- bounds
MaxLoops == 2           \* loop tasks made in one run of the process
MaxQueue == 2           \* entries the ready queue holds
MaxCount == 1           \* cap on frame_count within one statistics window
TickMs == 5000          \* distance of two clock readings, in ms

\* ------------------------------------------------------ program constants
WATCHDOG_MS == 10000        \* main.py:178  time.time() - last_frame_time > 10
LOG_INTERVAL_MS == 5000     \* main.py:275  current_time - last_log_time > 5
IDLE_SEND_MS == 10000       \* main.py:286  current_time - last_send_time > 10
SLEEP_SHORT_MS == 10        \* main.py:184 and main.py:285
SLEEP_LONG_MS == 800        \* main.py:287
ERROR_BACKOFF_MS == 1000    \* main.py:292
START_WAIT_MS == 2000       \* main.py:648
GIMBAL_LIMIT_DEG == 10      \* main.py:209

\* The h-th occasion to make a loop task: startup_auto_restart (the first
\* one, if the settings ask for it) or a start() request. Loop task h is the
\* one it makes.
LoopIds == 1..MaxLoops

VARIABLES
    precision_landing_running,  \* main.py:62, the global running flag
    booted,             \* on_startup has run
    gimbal_setting,     \* settings: what get_gimbal_attitude_settings returns
    settings_file,      \* settings.py:11, what SETTINGS_FILE holds
    default_settings,   \* settings.py:14, the dictionary DEFAULT_SETTINGS
    last_update,        \* <<v>>: update_precision_landing_enabled(v) was the
                        \*   last update of the flag and returned True
    ready,              \* the event loop's ready queue (FIFO)
    batch,              \* entries of the ready queue left in the running batch
    pc,                 \* per loop task: where the coroutine stands
    use_gimbal_attitude,\* per loop task: local of line 124
    last_frame_time,    \* per loop task: local of line 162
    last_log_time,      \* per loop task: local of line 163
    last_send_time,     \* per loop task: local of line 164
    frame_count,        \* per loop task: local of line 165
    tag_count,          \* per loop task: local of line 166
    sent_count,         \* per loop task: local of line 167
    last_success,       \* per loop task: <<when it last acquired a frame>>
    last_reset,         \* per loop task: <<when its watchdog last reset the capture>>
    last_sent,          \* per loop task: <<when a dispatch of it last succeeded,
                        \*   or else when it entered the main loop>>
    hpc,                \* per occasion: where the start() handler stands
    stop_req,           \* per loop task: a stop() ran while it was Running
    test_pc,            \* where the thread of the event loop stands in test()
    ev                  \* what the last step did and returned

locals == <<use_gimbal_attitude, last_frame_time, last_log_time, last_send_time,
            frame_count, tag_count, sent_count, last_success, last_reset,
            last_sent>>
settings == <<gimbal_setting, settings_file, default_settings, last_update>>
vars == <<precision_landing_running, booted, gimbal_setting, settings_file,
          default_settings, last_update, ready, batch,
          pc, use_gimbal_attitude, last_frame_time, last_log_time,
          last_send_time, frame_count, tag_count, sent_count, last_success,
          last_reset, last_sent, hpc, stop_req, test_pc, ev>>

\* The shape of ev; every step overwrites all of it.
NoEvent ==
    [kind |-> "none", id |-> -1, result |-> "none", outcome |-> "none",
     spawned |-> FALSE, enabled |-> FALSE,
     last_used |-> [camera_type |-> "", rtsp |-> ""], args |-> <<>>,
     probed |-> FALSE, iterated |-> FALSE, acquired |-> FALSE,
     should_send_target |-> TRUE, detected |-> FALSE, dispatched |-> FALSE,
     reset |-> FALSE, flushed |-> FALSE, raised |-> FALSE, cleanup |-> FALSE,
     requested |-> FALSE, attitude |-> "none", exited |-> FALSE, sleep |-> 0,
     orientation |-> [success |-> FALSE, deg |-> -1], detector |-> FALSE,
     tag_id |-> -1, reports |-> <<>>, probe |-> <<>>,
     geom |-> [f |-> "none", args |-> <<>>]]

Token(k, i) == [k |-> k, id |-> i]

\* time.time(): the origin of the time axis
Now == 0

\* Timestamps older than this are all alike to the code.
Horizon == WATCHDOG_MS + TickMs

\* The timestamp t after one more tick of the clock.
Aged(t) == IF t - TickMs < Now - Horizon THEN Now - Horizon ELSE t - TickMs

\* A loop task is active from the first statement it runs to the end of its
\* finally block; between two steps it is then suspended in asyncio.sleep.
Active(i) == pc[i] \in {"sleeping", "ready"}
ActiveLoops == {i \in LoopIds : Active(i)}

\* The loop tasks that were Running when a stop() ran, with no start() since.
halted == {i \in LoopIds : stop_req[i] = "pending"}

\* -------------------------------------------------- the code's decisions
\* A start() that does not test the flag.
StartNeverRejected(running) == FALSE

\* main.py:641  if precision_landing_running: return failure
StartRejected(running) == running

\* main.py:651  the result start() returns after its 2 s wait
StartResult(running) == IF running THEN "success" ELSE "failure"

\* A stop() that turns the flag over.
StopFlagToggled(running) == ~running

\* A stop() that leaves the flag as it is.
StopFlagKept(running) == running

\* main.py:677  precision_landing_running = False
StopFlag(running) == FALSE

\* main.py:682  stop() returns success on every path but an exception
StopResult(running) == "success"

\* main.py:624  "running": precision_landing_running
StatusRunning(running) == running

\* main.py:106  precision_landing_running = True
StartingFlag(running) == TRUE

\* A Starting phase that does not test the answer of the probe.
StartingFailedCaptureOnly(outcome) == outcome = "capture_failed"

\* main.py:134 and main.py:149  the tests that end the Starting phase
StartingFailed(outcome) == outcome \in {"capture_failed", "probe_failed"}

\* main.py:136 and main.py:151  precision_landing_running = False; return
StartingFailedFlag(running) == FALSE

\* A Starting phase that asks for the stream whatever the gimbal answered.
StreamRequestedAlways(gimbal_ok) == TRUE

\* main.py:154-157  if not gimbal_result["success"]:
\* request_gimbal_attitude_status
StreamRequested(gimbal_ok) == ~gimbal_ok

\* main.py:169  while precision_landing_running
LoopContinues(running) == running

\* image_capture.cleanup_video_capture(): the capture is released; TRUE
\* when the call has returned
cleanup_video_capture == TRUE

\* A finally block that leaves the flag as it is.
FinallyFlagKept(running) == running

\* main.py:296-299  finally: cleanup_video_capture(); running = False
FinallyFlag(running) == FALSE
FinallyCleanup == cleanup_video_capture

\* A watchdog that fires after half the time.
WatchdogExpiredEarly(t, lft) == 2 * (t - lft) > WATCHDOG_MS

\* A watchdog that fires at the limit already.
WatchdogExpiredAtLimit(t, lft) == t - lft >= WATCHDOG_MS

\* main.py:178  if time.time() - last_frame_time > 10
WatchdogExpired(t, lft) == t - lft > WATCHDOG_MS

\* A gate that turns away a gimbal at the limit itself.
ShouldSendTargetBelowLimit(use_gimbal, orientation) ==
    IF use_gimbal /\ orientation.success
    THEN orientation.deg < GIMBAL_LIMIT_DEG
    ELSE TRUE

\* main.py:194-214  should_send_target; orientation.success is the answer of
\* get_gimbal_attitude, orientation.deg the deviation from gimbal_down_q
ShouldSendTarget(use_gimbal, orientation) ==
    IF use_gimbal
    THEN IF orientation.success
         THEN ~(orientation.deg > GIMBAL_LIMIT_DEG)
         ELSE TRUE
    ELSE TRUE

\* send_landing_target.py:275-328  send_landing_target_msg: the LANDING_TARGET
\* message handed to MAV2Rest
send_landing_target_msg(target_num, distance) ==
    [target_num |-> target_num, distance |-> distance, q |-> <<1, 0, 0, 0>>,
     frame |-> "LOCAL_FRD", type |-> "VISION_FIDUCIAL"]

\* send_landing_target.py:117-125  send_landing_target: the report of a tag
send_landing_target(tag_id) == send_landing_target_msg(tag_id, 0)

\* main.py:140-148  the probe of the Starting phase (and of test-mavlink,
\* main.py:699-707)
ProbeReport == send_landing_target_msg(0, 0)

\* A sender that posts a report again when the first post failed.
PostsWithRetry(report, ok) == IF ok THEN <<report>> ELSE <<report, report>>

\* send_landing_target.py:335-354  one post_to_mav2rest for every report,
\* whatever it answers
Posts(report, ok) == <<report>>

\* A loop that hands every frame to the detector.
DetectorAlways(send_target) == TRUE

\* main.py:216  if should_send_target: the frame goes to the Tag Detector
DetectorInvoked(send_target) == send_target

\* A counter that leaves the tags out.
TagCountedNever(detected, sent) == FALSE

\* A counter of the tags that were reported to the vehicle.
TagCountedIfSent(detected, sent) == sent

\* main.py:239-242  tag_count += 1 stands before the dispatch
TagCounted(detected, sent) == detected

\* A flush that is due as soon as the window is 5 s old.
LogDueAtLimit(t, llt) == t - llt >= LOG_INTERVAL_MS

\* main.py:275  if current_time - last_log_time > 5
LogDue(t, llt) == t - llt > LOG_INTERVAL_MS

\* An idle back-off of twice the length.
SleepTimeDoubled(t, lst) ==
    IF t - lst > IDLE_SEND_MS THEN 2 * SLEEP_LONG_MS ELSE SLEEP_SHORT_MS

\* main.py:285-287  sleep_time
SleepTime(t, lst) == IF t - lst > IDLE_SEND_MS THEN SLEEP_LONG_MS ELSE SLEEP_SHORT_MS

\* A retry that waits as long as after a caught error.
RetrySleepBackoff(t, lst) == ERROR_BACKOFF_MS

\* A retry that backs off as an idle iteration does.
RetrySleepIdle(t, lst) == SleepTime(t, lst)

\* main.py:183-185  await asyncio.sleep(0.01); continue
RetrySleep(t, lst) == SLEEP_SHORT_MS

\* main.py:162-167  the locals at the entry of the main loop
LoopEntry(t, use_gimbal) ==
    [use_gimbal_attitude |-> use_gimbal,
     last_frame_time |-> t, last_log_time |-> t, last_send_time |-> t,
     frame_count |-> 0, tag_count |-> 0, sent_count |-> 0]

\* The inputs of one iteration: what the collaborators answer.
Deviations == {5, 10, 15}
Orientations ==
    {[success |-> FALSE, deg |-> 0]} \cup {[success |-> TRUE, deg |-> d] : d \in Deviations}
\* main.py:196  the gimbal is asked only if use_gimbal_attitude is set
NotQueried == [success |-> FALSE, deg |-> -1]
Detections == {"none", "tag", "raise"}
\* main.py:241, 246  detected_tag["tag_id"]
TagIds == {0, 7}
\* An answer that the iteration does not come to ask for is left out: a
\* tag id and the answer of the gateway without a tag, anything after a
\* failed capture.
IterInputs ==
    {in \in [capture : BOOLEAN, orientation : Orientations,
             detection : Detections, tag_id : TagIds, send : BOOLEAN] :
        /\ in.detection # "tag" => (in.tag_id = 0 /\ ~in.send)
        /\ ~in.capture => (in.detection = "none" /\ ~in.orientation.success)}

\* main.py:170-292  one pass of the body of the while loop, from the capture
\* to the asyncio.sleep that ends it. l: the locals, t: the clock reading.
\* Returns the locals, the sleep asked for and what the pass did.
loop_iteration(l, t, in) ==
    IF ~in.capture
    THEN \* 174-185: failed capture, watchdog, short sleep, continue
         LET reset == WatchdogExpired(t, l.last_frame_time)
             st == RetrySleep(t, l.last_send_time)
         IN  [l |-> [l EXCEPT !.last_frame_time = IF reset THEN t ELSE @],
              sleep |-> st,
              e |-> [NoEvent EXCEPT !.iterated = TRUE, !.reset = reset,
                                    !.sleep = st]]
    ELSE \* 187-189
         LET l1 == [l EXCEPT !.last_frame_time = t, !.frame_count = @ + 1]
             orientation == IF l.use_gimbal_attitude THEN in.orientation
                            ELSE NotQueried
             send_target == ShouldSendTarget(l.use_gimbal_attitude, in.orientation)
             detect == DetectorInvoked(send_target)
         IN  IF detect /\ in.detection = "raise"
             THEN \* 290-292: the error is caught, 1 s backoff
                  [l |-> l1, sleep |-> ERROR_BACKOFF_MS,
                   e |-> [NoEvent EXCEPT !.iterated = TRUE, !.acquired = TRUE,
                                         !.orientation = orientation,
                                         !.should_send_target = send_target,
                                         !.detector = TRUE, !.raised = TRUE,
                                         !.sleep = ERROR_BACKOFF_MS]]
             ELSE LET detected == detect /\ in.detection = "tag"
                      sent == detected /\ in.send
                      \* 245-256
                      reports == IF detected
                                 THEN Posts(send_landing_target(in.tag_id), in.send)
                                 ELSE <<>>
                      \* 239-267
                      l2 == IF detected
                            THEN [l1 EXCEPT !.tag_count = IF TagCounted(detected, sent)
                                                          THEN @ + 1 ELSE @,
                                            !.sent_count = IF sent THEN @ + 1 ELSE @,
                                            !.last_send_time = t]
                            ELSE l1
                      \* 273-281
                      flush == LogDue(t, l2.last_log_time)
                      l3 == IF flush
                            THEN [l2 EXCEPT !.last_log_time = t, !.frame_count = 0,
                                            !.tag_count = 0, !.sent_count = 0]
                            ELSE l2
                      st == SleepTime(t, l3.last_send_time)
                  IN  [l |-> l3, sleep |-> st,
                       e |-> [NoEvent EXCEPT !.iterated = TRUE, !.acquired = TRUE,
                                             !.orientation = orientation,
                                             !.should_send_target = send_target,
                                             !.detector = detect,
                                             !.detected = detected,
                                             !.tag_id = IF detected THEN in.tag_id
                                                        ELSE -1,
                                             !.reports = reports,
                                             !.dispatched = detected,
                                             !.result = IF sent THEN "sent"
                                                        ELSE IF detected THEN "send_failed"
                                                        ELSE "none",
                                             !.flushed = flush, !.sleep = st]]

\* frame_count stays within MaxCount: a capture succeeds only if the counter
\* has room for it or this pass flushes it.
CountGuard(l, t, in) == loop_iteration(l, t, in).l.frame_count <= MaxCount

Locals(i) ==
    [use_gimbal_attitude |-> use_gimbal_attitude[i],
     last_frame_time |-> last_frame_time[i], last_log_time |-> last_log_time[i],
     last_send_time |-> last_send_time[i], frame_count |-> frame_count[i],
     tag_count |-> tag_count[i], sent_count |-> sent_count[i]]

\* The loop task i goes on with the locals and the sleep of r.
StoreLocals(i, r, t) ==
    /\ use_gimbal_attitude' = [use_gimbal_attitude EXCEPT ![i] = r.l.use_gimbal_attitude]
    /\ last_frame_time' = [last_frame_time EXCEPT ![i] = r.l.last_frame_time]
    /\ last_log_time' = [last_log_time EXCEPT ![i] = r.l.last_log_time]
    /\ last_send_time' = [last_send_time EXCEPT ![i] = r.l.last_send_time]
    /\ frame_count' = [frame_count EXCEPT ![i] = r.l.frame_count]
    /\ tag_count' = [tag_count EXCEPT ![i] = r.l.tag_count]
    /\ sent_count' = [sent_count EXCEPT ![i] = r.l.sent_count]
    \* a task with no frame on record has just passed its validation capture
    /\ last_success' = [last_success EXCEPT ![i] =
           IF r.e.acquired \/ @ = <<>> THEN <<t>> ELSE @]
    /\ last_reset' = [last_reset EXCEPT ![i] = IF r.e.reset THEN <<t>> ELSE @]
    /\ last_sent' = [last_sent EXCEPT ![i] =
           IF (r.e.dispatched /\ r.e.result = "sent") \/ @ = <<>>
           THEN <<t>> ELSE @]

\* The locals of loop task i end with its frame.
DropLocals(i) ==
    /\ use_gimbal_attitude' = [use_gimbal_attitude EXCEPT ![i] = FALSE]
    /\ last_frame_time' = [last_frame_time EXCEPT ![i] = 0]
    /\ last_log_time' = [last_log_time EXCEPT ![i] = 0]
    /\ last_send_time' = [last_send_time EXCEPT ![i] = 0]
    /\ frame_count' = [frame_count EXCEPT ![i] = 0]
    /\ tag_count' = [tag_count EXCEPT ![i] = 0]
    /\ sent_count' = [sent_count EXCEPT ![i] = 0]
    /\ last_success' = [last_success EXCEPT ![i] = <<>>]
    /\ last_reset' = [last_reset EXCEPT ![i] = <<>>]
    /\ last_sent' = [last_sent EXCEPT ![i] = <<>>]

\* ------------------------------------------------------------ the event loop
\* main.py:589-591  the thread of the event loop is free to run handlers
\* unless it stands in test(), waiting for the worker thread of the probe
EventLoopFree == test_pc = "idle"

Pop == /\ EventLoopFree
       /\ batch > 0
       /\ ready # <<>>
       /\ batch' = batch - 1

Head1 == Head(ready)

\* Between two batches: a request arrives, a timer expires.
Polling == booted /\ EventLoopFree /\ batch = 0 /\ Len(ready) < MaxQueue

\* The next start() request: its handler joins the ready queue.
ArriveStart ==
    /\ Polling
    /\ \E h \in LoopIds :
         /\ hpc[h] = "none"
         /\ \A g \in LoopIds : g < h => hpc[g] # "none"
         /\ hpc' = [hpc EXCEPT ![h] = "queued"]
         /\ ready' = Append(ready, Token("start", h))
         /\ ev' = [NoEvent EXCEPT !.kind = "arrive", !.id = h]
    /\ UNCHANGED <<precision_landing_running, booted, test_pc, settings, batch, pc,
                   locals, stop_req>>

ArriveStop ==
    /\ Polling
    /\ ready' = Append(ready, Token("stop", 0))
    /\ ev' = [NoEvent EXCEPT !.kind = "arrive"]
    /\ UNCHANGED <<precision_landing_running, booted, test_pc, settings, batch, pc,
                   locals, hpc, stop_req>>

\* The asyncio.sleep of loop task i ends: the task joins the ready queue.
TimerLoop(i) ==
    /\ booted /\ EventLoopFree /\ batch = 0
    /\ pc[i] = "sleeping"
    /\ pc' = [pc EXCEPT ![i] = "ready"]
    /\ ready' = Append(ready, Token("loop", i))
    /\ ev' = [NoEvent EXCEPT !.kind = "timer", !.id = i]
    /\ UNCHANGED <<precision_landing_running, booted, test_pc, settings, batch,
                   locals, hpc, stop_req>>

\* main.py:648  the asyncio.sleep(2) of start() request h ends. The loop task
\* it created was in the ready queue before the sleep began, so it has run.
TimerStart(h) ==
    /\ booted /\ EventLoopFree /\ batch = 0
    /\ hpc[h] = "waiting"
    /\ pc[h] # "spawned"
    /\ hpc' = [hpc EXCEPT ![h] = "ready"]
    /\ ready' = Append(ready, Token("return", h))
    /\ ev' = [NoEvent EXCEPT !.kind = "timer", !.id = h]
    /\ UNCHANGED <<precision_landing_running, booted, test_pc, settings, batch, pc,
                   locals, stop_req>>

\* The event loop takes what is in the ready queue as its next batch.
BeginBatch ==
    /\ booted /\ EventLoopFree /\ batch = 0
    /\ ready # <<>>
    /\ batch' = Len(ready)
    /\ ev' = [NoEvent EXCEPT !.kind = "batch"]
    /\ UNCHANGED <<precision_landing_running, booted, test_pc, settings, ready, pc,
                   locals, hpc, stop_req>>

\* --------------------------------------------------------- startup, requests
\* An auto-restart that does not look at the enabled flag.
AutoRestartAlways(enabled, last_used_ok) == last_used_ok

\* main.py:78-90  startup_auto_restart makes a loop task if the enabled flag
\* is set and last_used names a camera type and a stream
AutoRestart(enabled, last_used_ok) == enabled /\ last_used_ok

\* settings.py:149-157  get_last_used: what the settings file holds as the
\* last-used profile; "" stands for a value that is missing or empty
LastUsedProfiles ==
    [camera_type : {"", "siyi-a8"}, rtsp : {"", "rtsp://192.168.87.200:8554/main.264"}]

\* ---------------------------------------------------------------- settings
\* Of the settings the model keeps the section 'last_used' and the key
\* 'enabled' of the section 'precision_landing'. A dictionary is
\* [shape, section, enabled, last_used]: shape is "bad" if the values under
\* 'cameras' and 'precision_landing' are no dictionaries, section tells
\* whether 'precision_landing' is there.
LastUsedNone == [camera_type |-> "", rtsp |-> ""]

LastUsedDefault ==
    [camera_type |-> "siyi-a8", rtsp |-> "rtsp://192.168.87.200:8554/main.264"]

Dictionaries ==
    [shape : {"ok", "bad"}, section : BOOLEAN, enabled : BOOLEAN,
     last_used : LastUsedProfiles]

\* settings.py:14-36  DEFAULT_SETTINGS as the module is loaded
PRISTINE_SETTINGS ==
    [shape |-> "ok", section |-> TRUE, enabled |-> FALSE,
     last_used |-> LastUsedDefault]

\* settings.py:83  json.dump: the text of a dictionary
Dump(d) ==
    <<IF d.shape = "ok" THEN "{}" ELSE "0",
      IF d.section THEN IF d.enabled THEN "true" ELSE "false" ELSE "",
      d.last_used.camera_type, d.last_used.rtsp>>

\* settings.py:55  json.load of a JSON text
Load(text) ==
    [shape |-> IF text[1] = "{}" THEN "ok" ELSE "bad",
     section |-> text[2] # "",
     enabled |-> text[2] = "true",
     last_used |-> [camera_type |-> text[3], rtsp |-> text[4]]]

\* settings.py:11  SETTINGS_FILE: not there, there with a JSON text, or there
\* with a text json.load rejects
NoFile == [state |-> "missing", text |-> <<>>]
Garbage == [state |-> "corrupt", text |-> <<>>]
Json(d) == [state |-> "json", text |-> Dump(d)]
Files == {NoFile, Garbage} \cup {Json(d) : d \in Dictionaries}

\* What becomes of a write: done, refused before the file is touched
\* (makedirs or open raises), or broken off after open has emptied the file.
WriteOutcomes == {"ok", "failed", "truncated"}

\* settings.py:71-86  save_settings: the file after the call. The except
\* clause logs the error and the function returns None either way.
save_settings(file, d, w) ==
    IF w = "ok" THEN Json(d)
    ELSE IF w = "truncated" THEN Garbage
    ELSE file

\* settings.py:40-67  get_settings: the dictionary returned, whether it is
\* the object DEFAULT_SETTINGS itself, and the file after the call
get_settings(file, defaults, w) ==
    IF file.state = "json"
    THEN [d |-> Load(file.text), alias |-> FALSE, file |-> file]
    ELSE [d |-> defaults, alias |-> TRUE,
          file |-> save_settings(file, defaults, w)]

\* settings.py:90-120  update_camera_rtsp
update_camera_rtsp(file, defaults, camera_type, rtsp, w1, w2) ==
    LET g == get_settings(file, defaults, w1) IN
    IF g.d.shape = "bad"
    THEN \* camera_type not in settings['cameras'] raises TypeError
         [result |-> FALSE, file |-> g.file, defaults |-> defaults,
          write |-> "none"]
    ELSE LET d == [g.d EXCEPT !.last_used = [camera_type |-> camera_type,
                                             rtsp |-> rtsp]] IN
         [result |-> TRUE, file |-> save_settings(g.file, d, w2),
          defaults |-> IF g.alias THEN d ELSE defaults, write |-> w2]

\* settings.py:149-157  get_last_used
get_last_used(file, defaults, w) ==
    LET g == get_settings(file, defaults, w) IN
    [file |-> g.file, result |-> g.d.last_used]

\* settings.py:161-185  update_precision_landing_enabled
update_precision_landing_enabled(file, defaults, enabled, w1, w2) ==
    LET g == get_settings(file, defaults, w1) IN
    IF g.d.shape = "bad"
    THEN \* settings['precision_landing']['enabled'] = enabled raises TypeError
         [result |-> FALSE, file |-> g.file, defaults |-> defaults,
          write |-> "none"]
    ELSE LET d == [g.d EXCEPT !.section = TRUE, !.enabled = enabled] IN
         [result |-> TRUE, file |-> save_settings(g.file, d, w2),
          defaults |-> IF g.alias THEN d ELSE defaults, write |-> w2]

\* settings.py:189-207  get_precision_landing_enabled
get_precision_landing_enabled(file, defaults, w) ==
    LET g == get_settings(file, defaults, w) IN
    [file |-> g.file,
     result |-> IF g.d.shape = "bad" THEN FALSE
                ELSE IF g.d.section THEN g.d.enabled
                ELSE defaults.enabled]

\* main.py:564-573  save_precision_landing_enabled_state
UpdateEnabled ==
    /\ \E enabled \in BOOLEAN, w1 \in WriteOutcomes, w2 \in WriteOutcomes :
          LET u == update_precision_landing_enabled(
                       settings_file, default_settings, enabled, w1, w2)
          IN  /\ settings_file' = u.file
              /\ default_settings' = u.defaults
              /\ last_update' = IF u.result THEN <<enabled>> ELSE <<>>
              /\ ev' = [NoEvent EXCEPT !.kind = "update_enabled",
                                       !.enabled = enabled,
                                       !.outcome = u.write,
                                       !.result = IF u.result THEN "success"
                                                  ELSE "failure"]
    /\ UNCHANGED <<precision_landing_running, booted, test_pc, gimbal_setting,
                   ready, batch, pc, locals, hpc, stop_req>>

\* settings.py:90-120  a call of update_camera_rtsp
UpdateCameraRtsp ==
    /\ \E p \in LastUsedProfiles, w1 \in WriteOutcomes, w2 \in WriteOutcomes :
          LET u == update_camera_rtsp(
                       settings_file, default_settings, p.camera_type, p.rtsp,
                       w1, w2)
          IN  /\ settings_file' = u.file
              /\ default_settings' = u.defaults
              /\ ev' = [NoEvent EXCEPT !.kind = "update_rtsp",
                                       !.last_used = p,
                                       !.outcome = u.write,
                                       !.result = IF u.result THEN "success"
                                                  ELSE "failure"]
    /\ UNCHANGED <<precision_landing_running, booted, test_pc, gimbal_setting,
                   last_update, ready, batch, pc, locals, hpc, stop_req>>

\* main.py:547-560  get_precision_landing_enabled_state
GetEnabled ==
    /\ \E w \in WriteOutcomes :
          LET g == get_precision_landing_enabled(settings_file, default_settings, w)
          IN  /\ settings_file' = g.file
              /\ ev' = [NoEvent EXCEPT !.kind = "get_enabled",
                                       !.enabled = g.result,
                                       !.result = "success"]
    /\ UNCHANGED <<precision_landing_running, booted, test_pc, gimbal_setting,
                   default_settings, last_update, ready, batch, pc, locals,
                   hpc, stop_req>>

\* main.py:441  get_camera_configs: settings_dict = settings.get_settings()
GetSettings ==
    /\ \E w \in WriteOutcomes :
          LET g == get_settings(settings_file, default_settings, w)
          IN  /\ settings_file' = g.file
              /\ ev' = [NoEvent EXCEPT !.kind = "get_settings",
                                       !.outcome = w,
                                       !.result = "success",
                                       !.geom = [f |-> "get_settings",
                                                 args |-> <<>>,
                                                 out |-> g.d]]
    /\ UNCHANGED <<precision_landing_running, booted, test_pc, gimbal_setting,
                   default_settings, last_update, ready, batch, pc, locals,
                   hpc, stop_req>>

\* The process ends and is started again: the module settings is loaded
\* anew, the file is what it was.
Restart ==
    /\ default_settings' = PRISTINE_SETTINGS
    /\ ev' = [NoEvent EXCEPT !.kind = "restart"]
    /\ UNCHANGED <<precision_landing_running, booted, test_pc, gimbal_setting,
                   settings_file, last_update, ready, batch, pc, locals, hpc,
                   stop_req>>

\* main.py:83-85  if not camera_type or not rtsp_url: return
LastUsedOk(last_used) == last_used.camera_type # "" /\ last_used.rtsp # ""

\* main.py:70-93, 776-779  on_startup: startup_auto_restart. The server takes
\* requests when it has returned. last_used: the profile the settings hold,
\* which the code reads (main.py:82) if enabled is set.
Startup ==
    /\ ~booted
    /\ booted' = TRUE
    /\ \E w1 \in WriteOutcomes, w2 \in WriteOutcomes :
         LET g == get_precision_landing_enabled(settings_file, default_settings, w1)
             enabled == g.result
             l == get_last_used(g.file, default_settings, w2)
             last_used == l.result
         IN
         /\ settings_file' = IF enabled THEN l.file ELSE g.file
         /\ IF AutoRestart(enabled, LastUsedOk(last_used))
            THEN /\ pc' = [pc EXCEPT ![1] = "spawned"]
                 /\ hpc' = [hpc EXCEPT ![1] = "auto"]
                 /\ ready' = Append(ready, Token("loop", 1))
                 /\ ev' = [NoEvent EXCEPT !.kind = "startup", !.id = 1,
                                          !.enabled = enabled,
                                          !.last_used = last_used,
                                          !.args = <<last_used.camera_type,
                                                     last_used.rtsp>>,
                                          !.spawned = TRUE, !.result = "enabled"]
            ELSE /\ ev' = [NoEvent EXCEPT !.kind = "startup",
                                          !.enabled = enabled,
                                          !.last_used = last_used,
                                          !.result = IF enabled THEN "no_camera"
                                                     ELSE "disabled"]
                 /\ UNCHANGED <<pc, hpc, ready>>
    /\ UNCHANGED <<precision_landing_running, gimbal_setting, default_settings,
                   last_update, batch, locals, stop_req, test_pc>>

\* main.py:633-648  start(): the check of the flag, create_task, sleep(2)
RunStartRequest ==
    /\ Pop
    /\ Head1.k = "start"
    /\ LET h == Head1.id IN
       IF StartRejected(precision_landing_running)
       THEN /\ hpc' = [hpc EXCEPT ![h] = "returned"]
            /\ ready' = Tail(ready)
            /\ ev' = [NoEvent EXCEPT !.kind = "start", !.id = h,
                                     !.result = "failure"]
            /\ UNCHANGED pc
       ELSE /\ hpc' = [hpc EXCEPT ![h] = "waiting"]
            /\ pc' = [pc EXCEPT ![h] = "spawned"]
            /\ ready' = Append(Tail(ready), Token("loop", h))
            /\ ev' = [NoEvent EXCEPT !.kind = "start", !.id = h,
                                     !.spawned = TRUE]
    /\ stop_req' = [i \in LoopIds |->
           IF stop_req[i] = "pending" THEN "superseded" ELSE stop_req[i]]
    /\ UNCHANGED <<precision_landing_running, booted, test_pc, settings, locals>>

\* main.py:650-660  start() after its wait: the flag is the result
RunStartReturn ==
    /\ Pop
    /\ Head1.k = "return"
    /\ LET h == Head1.id IN
       /\ hpc' = [hpc EXCEPT ![h] = "returned"]
       /\ ev' = [NoEvent EXCEPT !.kind = "return", !.id = h,
                                !.result = StartResult(precision_landing_running)]
    /\ ready' = Tail(ready)
    /\ UNCHANGED <<precision_landing_running, booted, test_pc, settings, pc, locals,
                   stop_req>>

\* main.py:668-688  stop()
RunStop ==
    /\ Pop
    /\ Head1.k = "stop"
    /\ precision_landing_running' = StopFlag(precision_landing_running)
    /\ stop_req' = [i \in LoopIds |->
           IF Active(i) THEN "pending" ELSE stop_req[i]]
    /\ ev' = [NoEvent EXCEPT !.kind = "stop", !.cleanup = cleanup_video_capture,
                             !.result = StopResult(precision_landing_running)]
    /\ ready' = Tail(ready)
    /\ UNCHANGED <<booted, test_pc, settings, pc, locals, hpc>>

\* main.py:616-629  status(). The handler holds no await and writes nothing,
\* so its place in the ready queue is left open: it runs between any two steps.
RunStatus ==
    /\ booted /\ EventLoopFree
    /\ ev' = [NoEvent EXCEPT !.kind = "status",
                             !.result = IF StatusRunning(precision_landing_running)
                                        THEN "running" ELSE "stopped"]
    /\ UNCHANGED <<precision_landing_running, booted, test_pc, settings, ready, batch,
                   pc, locals, hpc, stop_req>>

\* A test that ends with the running flag cleared.
TestFlagCleared(running) == FALSE

\* main.py:577-612  test_precision_landing declares no global: the running
\* flag is after the test what it was before
TestFlag(running) == running

\* main.py:321-326, 362-377, 603-612  what the test comes to
TestOutcomes == {"success", "capture_failed", "timeout", "exception"}

\* main.py:593-612  the "success" of the answer
TestResult(outcome) == IF outcome = "success" THEN "success" ELSE "failure"

\* main.py:589-591, 603  future.result(timeout=60) raises out of the with
\* block of the ThreadPoolExecutor, whose exit joins the worker thread
TestWait(outcome) == IF outcome = "timeout" THEN "joining" ELSE "idle"

\* main.py:577-612, 305-377  test(): one capture and one detection in a
\* worker thread, awaited with future.result. The handler holds no await, so
\* it runs between any two steps of the event loop. When the probe has not
\* answered within the timeout the handler stands in the exit of the with
\* block until the worker thread ends.
RunTest ==
    /\ booted /\ EventLoopFree
    /\ precision_landing_running' = TestFlag(precision_landing_running)
    /\ \E outcome \in TestOutcomes :
          /\ test_pc' = TestWait(outcome)
          /\ ev' = [NoEvent EXCEPT !.kind = "test", !.outcome = outcome,
                                   !.result = IF TestWait(outcome) = "idle"
                                              THEN TestResult(outcome)
                                              ELSE "none"]
    /\ UNCHANGED <<booted, settings, ready, batch, pc, locals, hpc, stop_req>>

\* main.py:589, 603-609  the probe answers at last: the worker thread ends,
\* the with block is left and the handler returns the timeout result
TestJoin ==
    /\ test_pc = "joining"
    /\ test_pc' = "idle"
    /\ ev' = [NoEvent EXCEPT !.kind = "test", !.outcome = "timeout",
                             !.result = TestResult("timeout")]
    /\ UNCHANGED <<precision_landing_running, booted, settings, ready, batch,
                   pc, locals, hpc, stop_req>>

\* ------------------------------------------------------------- the loop task
StartingOutcomes == {"capture_failed", "probe_failed", "raised", "ok"}

\* main.py:294-300  the task ends: except, finally. running: the flag as the
\* task leaves it on its way to the finally block
LoopExit(i, kind, outcome, probed, running) ==
    /\ precision_landing_running' = FinallyFlag(running)
    /\ pc' = [pc EXCEPT ![i] = IF kind = "loop_start" THEN "failed" ELSE "done"]
    /\ ev' = [NoEvent EXCEPT !.kind = kind, !.id = i, !.outcome = outcome,
                             !.probed = probed,
                             !.probe = IF probed THEN <<ProbeReport>> ELSE <<>>,
                             !.cleanup = FinallyCleanup, !.exited = TRUE]
    /\ DropLocals(i)

\* main.py:169-292  the task passes the while test and runs one iteration
LoopPass(i, kind, outcome, l, probed, attitude, requested) ==
    \E in \in IterInputs :
       /\ CountGuard(l, Now, in)
       /\ LET r == loop_iteration(l, Now, in) IN
          /\ StoreLocals(i, r, Now)
          /\ pc' = [pc EXCEPT ![i] = "sleeping"]
          /\ ev' = [r.e EXCEPT !.kind = kind, !.id = i, !.outcome = outcome,
                               !.probed = probed,
                               !.probe = IF probed THEN <<ProbeReport>> ELSE <<>>,
                               !.attitude = attitude,
                               !.requested = requested]

\* main.py:97-169  the first run of the task: the Starting phase, and with it
\* (no await lies between) the first iteration of the main loop
RunLoopStart ==
    /\ Pop
    /\ Head1.k = "loop"
    /\ pc[Head1.id] = "spawned"
    /\ ready' = Tail(ready)
    /\ \E outcome \in StartingOutcomes, gimbal_ok \in BOOLEAN :
         LET i == Head1.id
             running1 == StartingFlag(precision_landing_running)
         IN  IF outcome = "raised"
             THEN LoopExit(i, "loop_start", outcome, FALSE, running1)
             ELSE IF StartingFailed(outcome)
             THEN LoopExit(i, "loop_start", outcome, outcome = "probe_failed",
                           StartingFailedFlag(running1))
             ELSE IF LoopContinues(running1)
             THEN /\ precision_landing_running' = running1
                  /\ LoopPass(i, "loop_start", outcome,
                              LoopEntry(Now, gimbal_setting), TRUE,
                              IF gimbal_ok THEN "ok" ELSE "failed",
                              StreamRequested(gimbal_ok))
             ELSE LoopExit(i, "loop_start", outcome, TRUE, running1)
    /\ UNCHANGED <<booted, test_pc, settings, hpc, stop_req>>

\* main.py:169, 283-300  the task wakes from asyncio.sleep: the while test,
\* then the next iteration or the way out through finally
RunLoopWake ==
    /\ Pop
    /\ Head1.k = "loop"
    /\ pc[Head1.id] = "ready"
    /\ ready' = Tail(ready)
    /\ LET i == Head1.id IN
       IF LoopContinues(precision_landing_running)
       THEN /\ LoopPass(i, "loop_wake", "none", Locals(i), FALSE, "none", FALSE)
            /\ UNCHANGED precision_landing_running
       ELSE LoopExit(i, "loop_wake", "stopped", FALSE, precision_landing_running)
    /\ UNCHANGED <<booted, test_pc, settings, hpc, stop_req>>

\* The clock ticks: the timestamps the live loop tasks hold grow older.
Tick ==
    /\ booted
    /\ ActiveLoops # {}
    /\ last_frame_time' = [i \in LoopIds |->
           IF Active(i) THEN Aged(last_frame_time[i]) ELSE last_frame_time[i]]
    /\ last_log_time' = [i \in LoopIds |->
           IF Active(i) THEN Aged(last_log_time[i]) ELSE last_log_time[i]]
    /\ last_send_time' = [i \in LoopIds |->
           IF Active(i) THEN Aged(last_send_time[i]) ELSE last_send_time[i]]
    /\ last_success' = [i \in LoopIds |->
           IF last_success[i] = <<>> THEN <<>> ELSE <<Aged(last_success[i][1])>>]
    /\ last_reset' = [i \in LoopIds |->
           IF last_reset[i] = <<>> THEN <<>> ELSE <<Aged(last_reset[i][1])>>]
    /\ last_sent' = [i \in LoopIds |->
           IF last_sent[i] = <<>> THEN <<>> ELSE <<Aged(last_sent[i][1])>>]
    /\ ev' = [NoEvent EXCEPT !.kind = "tick"]
    /\ UNCHANGED <<precision_landing_running, booted, test_pc, settings, ready, batch, pc,
                   use_gimbal_attitude, frame_count, tag_count, sent_count, hpc,
                   stop_req>>

\* ------------------------------------------------------------- arithmetic
\* The floats of the program are held as fractions <<n, d>> in lowest terms,
\* d > 0. A division by zero raises ZeroDivisionError: NaR stands for the
\* value that is never made, and whatever is computed from it is NaR.
Abs(x) == IF x < 0 THEN -x ELSE x

RECURSIVE GCD(_, _)
GCD(a, b) == IF b = 0 THEN a ELSE GCD(b, a % b)

NaR == <<0, 0>>
IsNaR(a) == a[2] = 0
Rat(n, d) ==
    IF d = 0 THEN NaR
    ELSE LET g == GCD(Abs(n), Abs(d))
             sgn == IF d < 0 THEN -1 ELSE 1
         IN  <<(sgn * n) \div g, (sgn * d) \div g>>
R(n) == <<n, 1>>
Zero == R(0)
RAdd(a, b) == IF IsNaR(a) \/ IsNaR(b) THEN NaR
              ELSE Rat(a[1] * b[2] + b[1] * a[2], a[2] * b[2])
RSub(a, b) == IF IsNaR(a) \/ IsNaR(b) THEN NaR
              ELSE Rat(a[1] * b[2] - b[1] * a[2], a[2] * b[2])
RMul(a, b) == IF IsNaR(a) \/ IsNaR(b) THEN NaR
              ELSE Rat(a[1] * b[1], a[2] * b[2])
RDiv(a, b) == IF IsNaR(a) \/ IsNaR(b) THEN NaR
              ELSE Rat(a[1] * b[2], a[2] * b[1])
RLt(a, b) == a[1] * b[2] < b[1] * a[2]
RLe(a, b) == a[1] * b[2] <= b[1] * a[2]
RAbs(a) == <<Abs(a[1]), a[2]>>
RMin(a, b) == IF RLt(b, a) THEN b ELSE a
RMax(a, b) == IF RLt(a, b) THEN b ELSE a

\* The straight line through the knots <<x, y>> of a table, x ascending.
Interp(knots, x) ==
    LET j == CHOOSE i \in 1..(Len(knots) - 1) :
                 RLe(knots[i][1], x) /\ RLe(x, knots[i + 1][1])
        x0 == knots[j][1]
        y0 == knots[j][2]
        x1 == knots[j + 1][1]
        y1 == knots[j + 1][2]
    IN  RAdd(y0, RDiv(RMul(RSub(x, x0), RSub(y1, y0)), RSub(x1, x0)))

\* An angle in radians is held as its multiple of pi.
\* math.radians, math.degrees
radians(x) == RDiv(x, R(180))
degrees(x) == RMul(x, R(180))

\* math.tan at 0, 5, ..., 85 degrees, in thousandths
TanTable == <<0, 87, 176, 268, 364, 466, 577, 700, 839, 1000, 1192, 1428,
              1732, 2145, 2747, 3732, 5671, 11430>>
TanKnots == [k \in 1..Len(TanTable) |-> <<Rat(k - 1, 36), Rat(TanTable[k], 1000)>>]
AtanKnots == [k \in 1..Len(TanTable) |-> <<TanKnots[k][2], TanKnots[k][1]>>]
TanLast == TanKnots[Len(TanTable)]

\* math.tan on [0, pi/2): the table, a straight line between two entries,
\* and beyond the last entry the pole at pi/2
tan(x) ==
    IF RLe(x, TanLast[1]) THEN Interp(TanKnots, x)
    ELSE RDiv(TanLast[2], RMul(R(36), RSub(Rat(1, 2), x)))

\* math.atan on [0, inf): the inverse of tan
atan(y) ==
    IF RLe(y, TanLast[2]) THEN Interp(AtanKnots, y)
    ELSE RSub(Rat(1, 2), RDiv(TanLast[2], RMul(R(36), y)))

\* math.acos on [-1, 1]: its values at -1, -1/2, 0, 1/2, 1 and a straight
\* line between two of them
AcosKnots == << <<R(-1), R(1)>>, <<Rat(-1, 2), Rat(2, 3)>>, <<Zero, Rat(1, 2)>>,
                <<Rat(1, 2), Rat(1, 3)>>, <<R(1), Zero>> >>
acos(x) == Interp(AcosKnots, x)

\* --------------------------------------------------------------- geometry
\* A vertical field of view that grows with the aspect ratio in a straight
\* line.
VfovRadLinear(hfov_rad, aspect_ratio) == RMul(hfov_rad, aspect_ratio)

\* main.py:410  vfov_rad = 2 * atan(tan(hfov_rad / 2) * aspect_ratio)
VfovRad(hfov_rad, aspect_ratio) ==
    RMul(R(2), atan(RMul(tan(RDiv(hfov_rad, R(2))), aspect_ratio)))

\* main.py:381-423  calculate_vertical_fov, in degrees. math.tan and math.atan
\* raise for no finite argument, so the except clause is never entered.
calculate_vertical_fov(hfov_deg, width, height) ==
    IF width <= 0 THEN Zero
    ELSE IF height <= 0 THEN Zero
    ELSE IF hfov_deg <= 0 \/ hfov_deg >= 180 THEN Zero
    ELSE LET hfov_rad == radians(R(hfov_deg))
             aspect_ratio == Rat(height, width)
             vfov_rad == VfovRad(hfov_rad, aspect_ratio)
             vfov_deg == degrees(vfov_rad)
         IN  IF RLe(vfov_deg, Zero) \/ RLe(R(180), vfov_deg) THEN Zero
             ELSE vfov_deg

\* Functions that take every field of view.
InvalidFovNever(camera_hfov_deg, camera_vfov_deg) == FALSE

\* A validation that looks at the horizontal field of view alone.
InvalidFovHfovOnly(camera_hfov_deg, camera_vfov_deg) == RLe(camera_hfov_deg, Zero)

\* send_landing_target.py:186 and send_landing_target.py:252
\* if camera_hfov_deg <= 0 or camera_vfov_deg <= 0
InvalidFov(camera_hfov_deg, camera_vfov_deg) ==
    RLe(camera_hfov_deg, Zero) \/ RLe(camera_vfov_deg, Zero)

\* An offset set against the whole width of the image.
NormalizedWhole(pixel_offset, image_size) == RDiv(pixel_offset, R(image_size))

\* send_landing_target.py:202-203  pixel_offset / (image_size / 2)
Normalized(pixel_offset, image_size) ==
    RDiv(pixel_offset, RDiv(R(image_size), R(2)))

\* send_landing_target.py:152-219  calculate_angular_offsets
calculate_angular_offsets(tag_center_x, tag_center_y, image_width, image_height, camera_hfov_deg, camera_vfov_deg) ==
    IF image_width <= 0 \/ image_height <= 0
       \/ InvalidFov(camera_hfov_deg, camera_vfov_deg)
    THEN [angle_x |-> Zero, angle_y |-> Zero, angle_x_deg |-> Zero,
          angle_y_deg |-> Zero, normalized_x |-> Zero, normalized_y |-> Zero,
          pixel_offset_x |-> Zero, pixel_offset_y |-> Zero]
    ELSE LET image_center_x == RDiv(R(image_width), R(2))
             image_center_y == RDiv(R(image_height), R(2))
             pixel_offset_x == RSub(R(tag_center_x), image_center_x)
             pixel_offset_y == RSub(R(tag_center_y), image_center_y)
             normalized_x == Normalized(pixel_offset_x, image_width)
             normalized_y == Normalized(pixel_offset_y, image_height)
             angle_x_rad == RMul(normalized_x, radians(RDiv(camera_hfov_deg, R(2))))
             angle_y_rad == RMul(normalized_y, radians(RDiv(camera_vfov_deg, R(2))))
         IN  [angle_x |-> angle_x_rad, angle_y |-> angle_y_rad,
              angle_x_deg |-> degrees(angle_x_rad),
              angle_y_deg |-> degrees(angle_y_rad),
              normalized_x |-> normalized_x, normalized_y |-> normalized_y,
              pixel_offset_x |-> pixel_offset_x,
              pixel_offset_y |-> pixel_offset_y]

\* send_landing_target.py:223-271  estimate_target_size_angular
estimate_target_size_angular(tag_width_pixels, tag_height_pixels, image_width, image_height, camera_hfov_deg, camera_vfov_deg) ==
    IF image_width <= 0 \/ image_height <= 0
       \/ InvalidFov(camera_hfov_deg, camera_vfov_deg)
    THEN [size_x |-> Zero, size_y |-> Zero, size_x_deg |-> Zero,
          size_y_deg |-> Zero]
    ELSE LET pixels_per_degree_h == RDiv(R(image_width), camera_hfov_deg)
             pixels_per_degree_v == RDiv(R(image_height), camera_vfov_deg)
             size_x_deg == RDiv(R(tag_width_pixels), pixels_per_degree_h)
             size_y_deg == RDiv(R(tag_height_pixels), pixels_per_degree_v)
         IN  [size_x |-> radians(size_x_deg), size_y |-> radians(size_y_deg),
              size_x_deg |-> size_x_deg, size_y_deg |-> size_y_deg]

\* send_landing_target.py:106-148  send_landing_target: the angles and the
\* sizes of the message handed to send_landing_target_msg; no message if the
\* conversion raises (the except clause reports a conversion error)
landing_target_angles(tag_id, tag_center_x, tag_center_y, tag_width_pixels, tag_height_pixels, image_width, image_height, camera_hfov_deg, camera_vfov_deg) ==
    LET angles == calculate_angular_offsets(tag_center_x, tag_center_y,
                      image_width, image_height, camera_hfov_deg, camera_vfov_deg)
        size == estimate_target_size_angular(tag_width_pixels, tag_height_pixels,
                      image_width, image_height, camera_hfov_deg, camera_vfov_deg)
    IN  IF \/ IsNaR(angles.angle_x) \/ IsNaR(angles.angle_y)
           \/ IsNaR(size.size_x) \/ IsNaR(size.size_y)
        THEN <<>>
        ELSE <<[target_num |-> tag_id,
                angle_x |-> angles.angle_x, angle_y |-> angles.angle_y,
                size_x |-> size.size_x, size_y |-> size.size_y]>>

\* main.py:428  q1[0]*q2[0] + q1[1]*q2[1] + q1[2]*q2[2] + q1[3]*q2[3]
Dot(q1, q2) ==
    RAdd(RAdd(RAdd(RMul(q1[1], q2[1]), RMul(q1[2], q2[2])),
              RMul(q1[3], q2[3])),
         RMul(q1[4], q2[4]))

\* A dot product that keeps its sign.
DotSigned(d) == d

\* main.py:428  abs(...)
DotAbs(d) == RAbs(d)

\* main.py:426-430  angle_between_quaternions, in radians
angle_between_quaternions(q1, q2) ==
    LET dot == DotAbs(Dot(q1, q2))
        clamped == RMin(R(1), RMax(R(-1), dot))
    IN  RMul(R(2), acos(clamped))

\* -q
Negated(q) == [k \in 1..4 |-> RSub(Zero, q[k])]

\* Unit quaternions <<w, x, y, z>>: the 24 whose components are all 0 and
\* +-1, or all +-1/2.
UnitQuaternions ==
    {q \in [1..4 -> {R(-1), Zero, R(1)}] :
        Cardinality({k \in 1..4 : q[k] # Zero}) = 1}
    \cup [1..4 -> {Rat(-1, 2), Rat(1, 2)}]

\* main.py:206  angle_between_quaternions(gimbal_down_q, gimbal_attitude_q)
CalcAngleBetween ==
    /\ ev.kind = "none"
    /\ \E q1 \in UnitQuaternions, q2 \in UnitQuaternions :
          ev' = [NoEvent EXCEPT !.kind = "geometry",
                    !.geom = [f |-> "angle_between_quaternions",
                              args |-> <<q1, q2>>,
                              out |-> angle_between_quaternions(q1, q2)]]
    /\ UNCHANGED <<precision_landing_running, booted, test_pc, settings, ready,
                   batch, pc, locals, hpc, stop_req>>

\* The arguments the geometry is called with: sizes and places in pixels,
\* fields of view in degrees.
ImageSizes == {-1, 0, 480, 640}
HfovDegs == {-10, 0, 10, 80, 170, 180, 200}
VfovDegs == {-10, 0, 60}
TagPlaces == {0, 320, 700}
TagSizes == {0, 40}

\* main.py:228  camera_vfov = calculate_vertical_fov(camera_hfov, width, height)
CalcVerticalFov ==
    /\ ev.kind = "none"
    /\ \E hfov \in HfovDegs, w \in ImageSizes, h \in ImageSizes :
          ev' = [NoEvent EXCEPT !.kind = "geometry",
                    !.geom = [f |-> "calculate_vertical_fov",
                              args |-> <<hfov, w, h>>,
                              out |-> calculate_vertical_fov(hfov, w, h)]]
    /\ UNCHANGED <<precision_landing_running, booted, test_pc, settings, ready,
                   batch, pc, locals, hpc, stop_req>>

\* ------------------------------------------------------------ frame capture
\* What OpenCV does in one call of capture_frame_from_stream.
CaptureOutcomes ==
    {"construct_raises", "set_raises", "not_opened", "read_raises",
     "read_failed", "no_frame", "frame"}

\* image_capture.py:114-116  cap = cv2.VideoCapture(...): cap is bound unless
\* the constructor raised
CapMade(outcome) == outcome # "construct_raises"

\* image_capture.py:147  except Exception: what the try body raised
CaptureRaised(outcome) ==
    outcome \in {"construct_raises", "set_raises", "read_raises"}

\* A release that stands at the end of the try body.
ReleasedOnReturn(made, outcome) == made /\ ~CaptureRaised(outcome)

\* image_capture.py:154-156  finally: if cap is not None: cap.release()
Released(made, outcome) == made

\* image_capture.py:101-157  capture_frame_from_stream: the result, whether
\* an exception leaves the function, and the handle when it has returned
capture_frame_from_stream(outcome) ==
    LET made == CapMade(outcome)
        handle == IF ~made THEN "none"
                  ELSE IF Released(made, outcome) THEN "released" ELSE "open"
        result ==
            IF CaptureRaised(outcome)
            THEN [success |-> FALSE, error |-> "exception"]
            ELSE IF outcome = "not_opened"
            THEN [success |-> FALSE, error |-> "Video capture failed"]
            ELSE IF outcome = "frame"
            THEN [success |-> TRUE, error |-> ""]
            ELSE [success |-> FALSE, error |-> "Frame read failed"]
    IN  [result |-> result, raises |-> FALSE, handle |-> handle]

\* main.py:172  frame_result = image_capture.capture_frame_from_stream(rtsp_url)
CaptureFrame ==
    /\ ev.kind = "none"
    /\ \E outcome \in CaptureOutcomes :
          ev' = [NoEvent EXCEPT !.kind = "capture", !.outcome = outcome,
                    !.geom = [f |-> "capture_frame_from_stream",
                              args |-> <<outcome>>,
                              out |-> capture_frame_from_stream(outcome)]]
    /\ UNCHANGED <<precision_landing_running, booted, test_pc, settings, ready,
                   batch, pc, locals, hpc, stop_req>>

\* main.py:216-256  an acquired frame that is to be searched: the vertical
\* field of view, the detector, and the report of the tag it returned
DetectAndSend ==
    /\ ev.kind = "none"
    /\ \E hfov \in HfovDegs, w \in ImageSizes, h \in ImageSizes,
          cx \in TagPlaces, cy \in TagPlaces, tw \in TagSizes,
          detected \in BOOLEAN :
          LET camera_vfov == calculate_vertical_fov(hfov, w, h)
              reports == IF detected
                         THEN landing_target_angles(7, cx, cy, tw, tw, w, h,
                                                    R(hfov), camera_vfov)
                         ELSE <<>>
          IN  ev' = [NoEvent EXCEPT !.kind = "geometry",
                        !.detector = TRUE, !.detected = detected,
                        !.dispatched = reports # <<>>,
                        !.geom = [f |-> "send_landing_target",
                                  args |-> <<cx, cy, tw, tw, w, h, hfov>>,
                                  out |-> [camera_vfov |-> camera_vfov,
                                           reports |-> reports]]]
    /\ UNCHANGED <<precision_landing_running, booted, test_pc, settings, ready,
                   batch, pc, locals, hpc, stop_req>>

\* send_landing_target.py:108-110  angles = calculate_angular_offsets(...)
CalcAngularOffsets ==
    /\ ev.kind = "none"
    /\ \E cx \in TagPlaces, cy \in TagPlaces, w \in ImageSizes, h \in ImageSizes,
          hfov \in HfovDegs, vfov \in VfovDegs :
          ev' = [NoEvent EXCEPT !.kind = "geometry",
                    !.geom = [f |-> "calculate_angular_offsets",
                              args |-> <<cx, cy, w, h, hfov, vfov>>,
                              out |-> calculate_angular_offsets(
                                          cx, cy, w, h, R(hfov), R(vfov))]]
    /\ UNCHANGED <<precision_landing_running, booted, test_pc, settings, ready,
                   batch, pc, locals, hpc, stop_req>>

\* send_landing_target.py:113-115  size = estimate_target_size_angular(...)
CalcAngularSize ==
    /\ ev.kind = "none"
    /\ \E tw \in TagSizes, th \in TagSizes, w \in ImageSizes, h \in ImageSizes,
          hfov \in HfovDegs, vfov \in VfovDegs :
          ev' = [NoEvent EXCEPT !.kind = "geometry",
                    !.geom = [f |-> "estimate_target_size_angular",
                              args |-> <<tw, th, w, h, hfov, vfov>>,
                              out |-> estimate_target_size_angular(
                                          tw, th, w, h, R(hfov), R(vfov))]]
    /\ UNCHANGED <<precision_landing_running, booted, test_pc, settings, ready,
                   batch, pc, locals, hpc, stop_req>>

\* ------------------------------------------------------------ specifications
InitCommon ==
    /\ precision_landing_running = FALSE
    /\ booted = FALSE
    /\ ready = <<>>
    /\ batch = 0
    /\ pc = [i \in LoopIds |-> "none"]
    /\ use_gimbal_attitude = [i \in LoopIds |-> FALSE]
    /\ last_frame_time = [i \in LoopIds |-> 0]
    /\ last_log_time = [i \in LoopIds |-> 0]
    /\ last_send_time = [i \in LoopIds |-> 0]
    /\ frame_count = [i \in LoopIds |-> 0]
    /\ tag_count = [i \in LoopIds |-> 0]
    /\ sent_count = [i \in LoopIds |-> 0]
    /\ last_success = [i \in LoopIds |-> <<>>]
    /\ last_reset = [i \in LoopIds |-> <<>>]
    /\ last_sent = [i \in LoopIds |-> <<>>]
    /\ hpc = [h \in LoopIds |-> "none"]
    /\ stop_req = [i \in LoopIds |-> "none"]
    /\ test_pc = "idle"
    /\ ev = NoEvent

\* The persisted settings are whatever the last run of the process left:
\* here a file with precision landing enabled, with or without a camera.
Init ==
    /\ InitCommon
    /\ gimbal_setting \in BOOLEAN
    /\ settings_file \in
          {Json([PRISTINE_SETTINGS EXCEPT !.enabled = TRUE, !.last_used = p]) :
             p \in {LastUsedNone, LastUsedDefault}}
    /\ default_settings = PRISTINE_SETTINGS
    /\ last_update = <<>>

\* No file, or a file with the flag and the last used camera of any kind.
InitTimed ==
    /\ InitCommon
    /\ gimbal_setting \in BOOLEAN
    /\ settings_file \in
          {NoFile} \cup {Json(d) : d \in {x \in Dictionaries :
                                            x.shape = "ok" /\ x.section}}
    /\ default_settings = PRISTINE_SETTINGS
    /\ last_update = <<>>

\* The settings file in every condition the last run, or none, left it in.
InitSettings ==
    /\ InitCommon
    /\ gimbal_setting = FALSE
    /\ settings_file \in Files
    /\ default_settings = PRISTINE_SETTINGS
    /\ last_update = <<>>

\* Every interleaving of the requests and the loop tasks at one clock reading.
Next ==
    \/ Startup
    \/ ArriveStart
    \/ ArriveStop
    \/ \E i \in LoopIds : TimerLoop(i)
    \/ \E h \in LoopIds : TimerStart(h)
    \/ BeginBatch
    \/ RunStartRequest
    \/ RunStartReturn
    \/ RunStop
    \/ RunStatus
    \/ RunTest
    \/ TestJoin
    \/ RunLoopStart
    \/ RunLoopWake

Spec == Init /\ [][Next]_vars

\* The event loop runs what is ready, and every sleep ends: a timer that is
\* due joins the ready queue at the next poll, whatever else arrives there.
Fairness ==
    /\ WF_vars(BeginBatch)
    /\ WF_vars(RunStartRequest)
    /\ WF_vars(RunStartReturn)
    /\ WF_vars(RunStop)
    /\ WF_vars(RunLoopStart)
    /\ WF_vars(RunLoopWake)
    /\ \A i \in LoopIds : SF_vars(TimerLoop(i))

SpecFair == Spec /\ Fairness

\* The auto-started loop task under a running clock, and the manual test.
NextTimed ==
    \/ Startup
    \/ Tick
    \/ \E i \in LoopIds : TimerLoop(i)
    \/ BeginBatch
    \/ RunTest
    \/ TestJoin
    \/ RunLoopStart
    \/ RunLoopWake

SpecTimed == InitTimed /\ [][NextTimed]_vars

\* The pure functions of the program: one call in every behaviour, with
\* every choice of the arguments.
NextPure ==
    \/ CalcVerticalFov
    \/ CalcAngularOffsets
    \/ CalcAngularSize
    \/ CalcAngleBetween
    \/ DetectAndSend
    \/ CaptureFrame

SpecPure == Init /\ [][NextPure]_vars

\* The settings file: updates, reads, restarts of the process.
NextSettings ==
    \/ UpdateEnabled
    \/ UpdateCameraRtsp
    \/ GetEnabled
    \/ GetSettings
    \/ Restart

SpecSettings == InitSettings /\ [][NextSettings]_vars

\* ---------------------------------------------------------------- properties
\* C1: in every reachable state at most one control-loop instance is active,
\* whatever the interleaving of start(), stop(), the auto-start and the sleeps.
C1_SingleFlight == Cardinality(ActiveLoops) <= 1

\* C2: a start() request that finds the running flag set returns failure,
\* makes no loop task, and leaves the flag, the counters and the timers of
\* every loop task as they are.
C2_RejectedStart ==
    [][(precision_landing_running /\ ev'.kind = "start")
         => /\ ev'.result = "failure"
            /\ ~ev'.spawned
            /\ ready' = Tail(ready)
            /\ UNCHANGED <<precision_landing_running, pc, locals>>]_vars

C2_Witness ==
    /\ ev.kind = "start" /\ ev.result = "failure"
    /\ precision_landing_running
    /\ ActiveLoops # {}

\* C3: a stop() request that runs while no loop instance exists returns
\* failure.
C3_StopWhileIdle ==
    (ev.kind = "stop" /\ \A i \in LoopIds : pc[i] \in {"none", "failed", "done"})
        => ev.result = "failure"

\* C4: a loop instance that was Running when stop() ran, with no start()
\* since, acquires, detects and dispatches nothing more: the next time it
\* runs it leaves through the finally block, which releases the capture and
\* leaves the flag false; and it does get there.
C4_StopHalts ==
    /\ [][\A i \in halted :
            (ev'.kind \in {"loop_start", "loop_wake"} /\ ev'.id = i)
               => /\ ~ev'.iterated /\ ~ev'.acquired
                  /\ ~ev'.detected /\ ~ev'.dispatched
                  /\ ev'.exited /\ ev'.cleanup
                  /\ pc'[i] = "done"
                  /\ ~precision_landing_running']_vars
    /\ \A i \in LoopIds :
          (i \in halted) ~> (\/ i \notin halted
                            \/ (pc[i] = "done" /\ ~precision_landing_running))

\* C5: a loop instance that is Running leaves the main loop only after a
\* stop() request that ran while it was Running.
C5_OnlyStopEnds ==
    [][\A i \in LoopIds :
          (ev'.kind = "loop_wake" /\ ev'.id = i /\ ev'.exited)
             => stop_req[i] # "none"]_vars

\* C6: whenever a loop task ends, by whatever path, the capture has been
\* released and the running flag is false.
C6_ExitReleases ==
    ev.exited => (ev.cleanup /\ ~precision_landing_running)

C6_Witness ==
    /\ ev.exited /\ ev.kind = "loop_start" /\ ev.outcome = "raised"
    /\ ev.cleanup
    /\ ~precision_landing_running

\* C7: a Starting phase whose validation capture or whose probe fails ends
\* the task with the flag false and without any iteration; one where both
\* succeed goes into the main loop with the flag true.
C7_Starting ==
    ev.kind = "loop_start" =>
       /\ ev.outcome \in {"capture_failed", "probe_failed"}
             => /\ ~ev.iterated /\ ev.exited
                /\ pc[ev.id] = "failed"
                /\ ~precision_landing_running
       /\ ev.outcome = "ok"
             => /\ ev.iterated /\ ~ev.exited
                /\ Active(ev.id)
                /\ precision_landing_running

C7_Witness ==
    /\ ev.kind = "loop_start" /\ ev.outcome = "probe_failed"
    /\ ev.probed /\ ev.exited
    /\ pc[ev.id] = "failed"

\* C8: a start() request returns failure whenever the loop task it made
\* failed its Starting phase, and success only if a loop instance is active
\* when it returns.
C8_StartResult ==
    ev.kind = "return" =>
       /\ pc[ev.id] = "failed" => ev.result = "failure"
       /\ ev.result = "success" => ActiveLoops # {}

\* C9: status() reports running exactly when a loop instance is active.
C9_StatusTruth ==
    ev.kind = "status" => (ev.result = "running" <=> ActiveLoops # {})

\* C10: on a failed acquisition the watchdog resets the capture exactly when
\* more than 10 s have passed since the last acquired frame and since the
\* last reset; the reset restarts the stall timer; and two resets of one
\* instance are never less than 10 s apart.
C10_Watchdog ==
    [][\A i \in LoopIds :
          (/\ ev'.kind \in {"loop_start", "loop_wake"} /\ ev'.id = i
           /\ ev'.iterated /\ ~ev'.acquired)
             => LET marks == {last_success[i][k] : k \in DOMAIN last_success[i]}
                             \cup {last_reset[i][k] : k \in DOMAIN last_reset[i]}
                    stalled == \A m \in marks : Now - m > WATCHDOG_MS
                IN  /\ ev'.reset <=> (marks # {} /\ stalled)
                    /\ ev'.reset => /\ last_frame_time'[i] = Now
                                    /\ \A m \in marks : Now - m >= WATCHDOG_MS
                    /\ ~ev'.reset => last_frame_time'[i] = last_frame_time[i]]_vars

C10_Witness ==
    /\ ev.kind = "loop_wake" /\ ev.iterated /\ ~ev.acquired /\ ev.reset
    /\ last_frame_time[ev.id] = Now
    /\ last_reset[ev.id] = <<Now>>

\* C11: in an iteration that acquired a frame, should_send_target is true
\* exactly when gating is off, or the gimbal gave no orientation, or its
\* deviation from the nadir reference is at most 10 degrees.
C11_Gating ==
    (ev.iterated /\ ev.acquired) =>
       (ev.should_send_target <=>
           \/ ~use_gimbal_attitude[ev.id]
           \/ ~ev.orientation.success
           \/ ev.orientation.deg <= 10)

C11_Witness ==
    /\ ev.iterated /\ ev.acquired
    /\ use_gimbal_attitude[ev.id]
    /\ ev.orientation.success /\ ev.orientation.deg = 10
    /\ ev.should_send_target

\* C12 as stated: an iteration whose should_send_target is false does not
\* invoke the detector and dispatches nothing; it leaves tag_count,
\* sent_count and last_send_time as they were and adds one to frame_count.
C12_GatedAsStated ==
    [][\A i \in LoopIds :
          (/\ ev'.kind \in {"loop_start", "loop_wake"} /\ ev'.id = i
           /\ ev'.acquired /\ ~ev'.should_send_target)
             => LET before == IF ev'.kind = "loop_start"
                              THEN LoopEntry(Now, gimbal_setting) ELSE Locals(i)
                IN  /\ ~ev'.detector /\ ~ev'.detected /\ ~ev'.dispatched
                    /\ tag_count'[i] = before.tag_count
                    /\ sent_count'[i] = before.sent_count
                    /\ last_send_time'[i] = before.last_send_time
                    /\ frame_count'[i] = before.frame_count + 1]_vars

\* C12: an iteration whose should_send_target is false does not invoke the
\* detector and dispatches nothing; it leaves last_send_time as it was; it
\* leaves tag_count and sent_count as they were and adds one to frame_count,
\* unless the periodic log flush falls into the same iteration, which then
\* sets all three counters to 0.
C12_Gated ==
    [][\A i \in LoopIds :
          (/\ ev'.kind \in {"loop_start", "loop_wake"} /\ ev'.id = i
           /\ ev'.acquired /\ ~ev'.should_send_target)
             => LET before == IF ev'.kind = "loop_start"
                              THEN LoopEntry(Now, gimbal_setting) ELSE Locals(i)
                IN  /\ ~ev'.detector /\ ~ev'.detected /\ ~ev'.dispatched
                    /\ last_send_time'[i] = before.last_send_time
                    /\ IF ev'.flushed
                       THEN /\ tag_count'[i] = 0 /\ sent_count'[i] = 0
                            /\ frame_count'[i] = 0
                       ELSE /\ tag_count'[i] = before.tag_count
                            /\ sent_count'[i] = before.sent_count
                            /\ frame_count'[i] = before.frame_count + 1]_vars

C12_Witness ==
    /\ ev.kind = "loop_wake" /\ ev.acquired /\ ~ev.should_send_target
    /\ ~ev.detector /\ ~ev.flushed
    /\ frame_count[ev.id] = 1

\* C13: an iteration sets last_send_time to the current time and adds one to
\* sent_count when it dispatched a report and the dispatch succeeded, and
\* only then: after a failed dispatch, and after no dispatch, both keep
\* their values (sent_count up to the log flush of the same iteration).
C13_SendBookkeeping ==
    [][\A i \in LoopIds :
          (/\ ev'.kind \in {"loop_start", "loop_wake"} /\ ev'.id = i
           /\ ev'.iterated)
             => LET before == IF ev'.kind = "loop_start"
                              THEN LoopEntry(Now, gimbal_setting) ELSE Locals(i)
                    sent == ev'.dispatched /\ ev'.result = "sent"
                IN  /\ last_send_time'[i] =
                          IF sent THEN Now ELSE before.last_send_time
                    /\ ~ev'.flushed =>
                          sent_count'[i] =
                             IF sent THEN before.sent_count + 1
                             ELSE before.sent_count]_vars

\* C14: an iteration that acquired a frame and ran to its end sleeps 800 ms
\* if no dispatch of the instance has succeeded within the last 10 s (nor
\* has the instance entered its main loop within them), and 10 ms otherwise.
C14_IdleBackoff ==
    [][\A i \in LoopIds :
          (/\ ev'.kind \in {"loop_start", "loop_wake"} /\ ev'.id = i
           /\ ev'.acquired /\ ~ev'.raised)
             => ev'.sleep =
                   IF \E k \in DOMAIN last_sent'[i] :
                         Now - last_sent'[i][k] <= 10000
                   THEN 10 ELSE 800]_vars

\* C15: an iteration hands at most one report to the gateway; the report is
\* that of the tag the same iteration detected in its own frame, so that
\* an iteration without a detection sends nothing, whatever came before.
C15_AtMostOnce ==
    ev.iterated =>
       /\ Len(ev.reports) <= 1
       /\ ev.reports # <<>> =>
             /\ ev.acquired /\ ev.detected
             /\ ev.reports[1].target_num = ev.tag_id
       /\ ~ev.detected => ev.reports = <<>>

C15_Witness ==
    /\ ev.iterated /\ ev.dispatched /\ ev.result = "send_failed"
    /\ Len(ev.reports) = 1
    /\ ev.tag_id = 7

\* C16: every report handed to the gateway, by the main loop or by the probe
\* of the Starting phase, has distance 0, the identity orientation, the
\* forward-right-down frame, the vision-fiducial type, and as target index
\* the id of a tag detected in the same cycle.
C16_ReportFields ==
    \A r \in {ev.reports[k] : k \in DOMAIN ev.reports}
             \cup {ev.probe[k] : k \in DOMAIN ev.probe} :
       /\ r.distance = 0
       /\ r.q = <<1, 0, 0, 0>>
       /\ r.frame = "LOCAL_FRD"
       /\ r.type = "VISION_FIDUCIAL"
       /\ ev.detected /\ r.target_num = ev.tag_id

\* C17: the log flush of an iteration sets frame_count, tag_count and
\* sent_count to 0 and the window start to the current time within the one
\* step of the iteration, and only when more than 5 s have passed since the
\* window start; a step without a flush lowers none of the counters and
\* keeps the window start, so that tag_count and sent_count never exceed
\* the frame_count of the same window.
C17_AtomicFlush ==
    [][\A i \in LoopIds :
          (/\ ev'.kind \in {"loop_start", "loop_wake"} /\ ev'.id = i
           /\ ev'.iterated)
             => LET before == IF ev'.kind = "loop_start"
                              THEN LoopEntry(Now, gimbal_setting) ELSE Locals(i)
                IN  /\ ev'.flushed =>
                          /\ frame_count'[i] = 0 /\ tag_count'[i] = 0
                          /\ sent_count'[i] = 0
                          /\ last_log_time'[i] = Now
                          /\ Now - before.last_log_time > 5000
                    /\ ~ev'.flushed =>
                          /\ frame_count'[i] >= before.frame_count
                          /\ tag_count'[i] >= before.tag_count
                          /\ sent_count'[i] >= before.sent_count
                          /\ last_log_time'[i] = before.last_log_time
                    /\ sent_count'[i] <= tag_count'[i]
                    /\ tag_count'[i] <= frame_count'[i]]_vars

C17_Witness ==
    /\ ev.kind = "loop_wake" /\ ev.iterated /\ ev.flushed
    /\ ev.detected /\ ev.result = "sent"
    /\ frame_count[ev.id] = 0 /\ tag_count[ev.id] = 0 /\ sent_count[ev.id] = 0
    /\ last_log_time[ev.id] = Now

\* C18 as stated: every sleep of an iteration (nominal, idle back-off,
\* acquisition retry, error backoff) is at most 800 ms.
C18_SleepAsStated ==
    ev.iterated => ev.sleep <= 800

\* C18: every sleep of an iteration is at most 1000 ms: 10 ms after a failed
\* acquisition, 10 ms or 800 ms at the end of an iteration that acquired a
\* frame, and 1000 ms after an error caught in the iteration.
C18_SleepBound ==
    ev.iterated =>
       /\ ev.sleep <= 1000
       /\ ~ev.acquired => ev.sleep = 10
       /\ (ev.acquired /\ ~ev.raised) => ev.sleep \in {10, 800}
       /\ ev.raised => ev.sleep = 1000

C18_Witness ==
    /\ ev.kind = "loop_wake" /\ ev.iterated /\ ev.acquired /\ ev.raised
    /\ ev.sleep = 1000
    /\ pc[ev.id] = "sleeping"

\* C19: when the process has started, a loop task has been made with the
\* camera type and the stream of the last-used profile if the persisted
\* enabled flag is set and the profile holds both; if the flag is not set
\* (or a value is missing) no task has been made, no loop instance exists
\* and the running flag is false.
C19_AutoRestart ==
    ev.kind = "startup" =>
       LET both == ev.last_used.camera_type # "" /\ ev.last_used.rtsp # "" IN
       /\ (ev.enabled /\ both) =>
             /\ ev.spawned
             /\ ev.args = <<ev.last_used.camera_type, ev.last_used.rtsp>>
             /\ pc[1] = "spawned"
             /\ ready = <<Token("loop", 1)>>
       /\ ~(ev.enabled /\ both) =>
             /\ ~ev.spawned /\ ev.args = <<>>
             /\ \A i \in LoopIds : pc[i] = "none"
             /\ ready = <<>>
             /\ ~precision_landing_running

C19_Witness ==
    /\ ev.kind = "startup" /\ ev.enabled /\ ev.spawned
    /\ ev.args = <<"siyi-a8", "rtsp://192.168.87.200:8554/main.264">>
    /\ pc[1] = "spawned"

\* C20: the manual test, whatever the state it runs in and whatever it comes
\* to, leaves the running flag, the counters and the timers of every loop
\* instance as they were, and makes and ends no loop task.
C20_TestFrame ==
    [][ev'.kind = "test" =>
          /\ ev'.outcome \in TestOutcomes
          /\ precision_landing_running' = precision_landing_running
          /\ frame_count' = frame_count /\ tag_count' = tag_count
          /\ sent_count' = sent_count
          /\ last_frame_time' = last_frame_time
          /\ last_log_time' = last_log_time
          /\ last_send_time' = last_send_time
          /\ pc' = pc /\ ready' = ready /\ stop_req' = stop_req]_vars

C20_Witness ==
    /\ ev.kind = "test" /\ ev.outcome = "timeout"
    /\ precision_landing_running
    /\ \E i \in ActiveLoops :
          /\ frame_count[i] = 1 /\ sent_count[i] = 1
          /\ last_log_time[i] < Now

\* C21: a test whose probe has not answered within the timeout has returned
\* the timeout failure: in no state is the timeout over and the request, and
\* with it the thread that schedules the loop tasks, still waiting for the
\* probe to end.
C21_TestBounded ==
    (ev.kind = "test" /\ ev.outcome = "timeout") =>
       /\ ev.result = "failure"
       /\ EventLoopFree

\* C22: a stop() that runs right after a stop() leaves the running flag, the
\* release of the capture and every loop task (where it stands, its counters
\* and timers, the stop asked of it) as the first stop() left them.
C22_StopIdempotent ==
    [][(ev.kind = "stop" /\ ev'.kind = "stop") =>
          /\ precision_landing_running' = precision_landing_running
          /\ ~precision_landing_running'
          /\ ev'.cleanup = ev.cleanup
          /\ pc' = pc /\ stop_req' = stop_req /\ hpc' = hpc
          /\ frame_count' = frame_count /\ tag_count' = tag_count
          /\ sent_count' = sent_count
          /\ last_frame_time' = last_frame_time
          /\ last_log_time' = last_log_time
          /\ last_send_time' = last_send_time]_vars

C22_Witness ==
    /\ ev.kind = "stop" /\ ev.cleanup
    /\ batch = 1 /\ ready = <<Token("stop", 0)>>
    /\ ~precision_landing_running
    /\ \E i \in LoopIds : pc[i] = "sleeping" /\ stop_req[i] = "pending"

\* C23 as stated: called with an image width or height that is not positive
\* or a horizontal field of view outside (0, 180) degrees, each of the three
\* geometry functions returns zero in every field and raises nothing.
C23_ZeroAsStated ==
    ev.kind = "geometry" =>
       LET a == ev.geom.args
           o == ev.geom.out
       IN  /\ (ev.geom.f = "calculate_vertical_fov"
               /\ (a[2] <= 0 \/ a[3] <= 0 \/ a[1] <= 0 \/ a[1] >= 180))
                  => o = Zero
           /\ (ev.geom.f \in {"calculate_angular_offsets",
                              "estimate_target_size_angular"}
               /\ (a[3] <= 0 \/ a[4] <= 0 \/ a[5] <= 0 \/ a[5] >= 180))
                  => \A k \in DOMAIN o : o[k] = Zero

\* C23: the vertical field of view is zero when the width or the height is
\* not positive or the horizontal field of view lies outside (0, 180)
\* degrees; the angular offsets and the angular size are zero in every field
\* when the width or the height or one of the two fields of view is not
\* positive; and none of the three functions raises, whatever its arguments.
C23_ZeroOnInvalid ==
    ev.kind = "geometry" =>
       LET a == ev.geom.args
           o == ev.geom.out
       IN  /\ ev.geom.f = "calculate_vertical_fov" =>
                 /\ ~IsNaR(o)
                 /\ (a[2] <= 0 \/ a[3] <= 0 \/ a[1] <= 0 \/ a[1] >= 180)
                       => o = Zero
           /\ ev.geom.f \in {"calculate_angular_offsets",
                             "estimate_target_size_angular"} =>
                 /\ \A k \in DOMAIN o : ~IsNaR(o[k])
                 /\ (a[3] <= 0 \/ a[4] <= 0 \/ a[5] <= 0 \/ a[6] <= 0)
                       => \A k \in DOMAIN o : o[k] = Zero

C23_Witness ==
    /\ ev.kind = "geometry" /\ ev.geom.f = "estimate_target_size_angular"
    /\ ev.geom.args = <<40, 40, 640, 480, 0, 60>>
    /\ ev.geom.out.size_x_deg = Zero /\ ev.geom.out.size_y = Zero

C25_LinearMapping ==
    (/\ ev.kind = "geometry"
     /\ ev.geom.f \in {"calculate_angular_offsets", "estimate_target_size_angular"}
     /\ ev.geom.args[3] > 0 /\ ev.geom.args[4] > 0
     /\ ev.geom.args[5] > 0 /\ ev.geom.args[6] > 0)
       => LET a == ev.geom.args
              o == ev.geom.out
              W == a[3]
              H == a[4]
              hfov == a[5]
              vfov == a[6]
          IN  IF ev.geom.f = "calculate_angular_offsets"
              THEN /\ o.angle_x_deg = Rat((2 * a[1] - W) * hfov, 2 * W)
                   /\ o.angle_y_deg = Rat((2 * a[2] - H) * vfov, 2 * H)
                   /\ o.angle_x = Rat((2 * a[1] - W) * hfov, 2 * W * 180)
                   /\ o.angle_y = Rat((2 * a[2] - H) * vfov, 2 * H * 180)
                   /\ (2 * a[1] = W /\ 2 * a[2] = H)
                         => (o.angle_x_deg = Zero /\ o.angle_y_deg = Zero)
                   /\ (a[1] = 0 /\ a[2] = 0)
                         => /\ o.angle_x_deg = Rat(-hfov, 2)
                            /\ o.angle_y_deg = Rat(-vfov, 2)
              ELSE /\ o.size_x_deg = Rat(a[1] * hfov, W)
                   /\ o.size_y_deg = Rat(a[2] * vfov, H)
                   /\ o.size_x = Rat(a[1] * hfov, W * 180)
                   /\ o.size_y = Rat(a[2] * vfov, H * 180)

C25_Witness ==
    /\ ev.kind = "geometry" /\ ev.geom.f = "calculate_angular_offsets"
    /\ ev.geom.args = <<700, 0, 640, 480, 80, 60>>
    /\ ev.geom.out.angle_x_deg = Rat(95, 2)
    /\ ev.geom.out.angle_y_deg = R(-30)

\* C26: for unit quaternions the angle between q and q is 0, the angle
\* between q and -q is 0, and the angle between q1 and q2 is the angle
\* between q2 and q1; the call writes nothing but its result.
C26_AngleBetween ==
    (ev.kind = "geometry" /\ ev.geom.f = "angle_between_quaternions") =>
       LET q1 == ev.geom.args[1]
           q2 == ev.geom.args[2]
       IN  /\ q2 = q1 => ev.geom.out = Zero
           /\ q2 = Negated(q1) => ev.geom.out = Zero
           /\ ev.geom.out = angle_between_quaternions(q2, q1)
           /\ RLe(Zero, ev.geom.out) /\ RLe(ev.geom.out, R(1))
           /\ ~booted /\ ~precision_landing_running /\ ready = <<>>

C26_Witness ==
    /\ ev.kind = "geometry" /\ ev.geom.f = "angle_between_quaternions"
    /\ ev.geom.args[1] = [k \in 1..4 |-> Rat(1, 2)]
    /\ ev.geom.args[2] = [k \in 1..4 |-> Rat(-1, 2)]
    /\ ev.geom.out = Zero

\* C27: when update_precision_landing_enabled(v) has returned True and no
\* update of the flag has run since, get_precision_landing_enabled() returns
\* v, in the same process and after a restart.
C27_RoundTrip ==
    (ev.kind = "get_enabled" /\ last_update # <<>>)
        => ev.enabled = last_update[1]

\* C28: update_camera_rtsp and update_precision_landing_enabled return True
\* only if the file holds the new value when they return, and they return
\* False when their write failed.
C28_UpdateResult ==
    ev.kind \in {"update_enabled", "update_rtsp"} =>
       /\ ev.result = "success" =>
             /\ settings_file.state = "json"
             /\ ev.kind = "update_enabled" =>
                   Load(settings_file.text).enabled = ev.enabled
             /\ ev.kind = "update_rtsp" =>
                   Load(settings_file.text).last_used = ev.last_used
       /\ ev.outcome \in {"failed", "truncated"} => ev.result = "failure"

\* C29: an iteration whose acquisition fails invokes no detector and
\* dispatches nothing; it leaves frame_count, tag_count, sent_count,
\* last_send_time and last_log_time as they were; it sleeps 10 ms, never
\* 800 ms; and the task then stands in its sleep, from which it goes on to
\* a next acquisition only through the test of the running flag.
C29_FailedAcquisition ==
    [][\A i \in LoopIds :
          /\ (/\ ev'.kind \in {"loop_start", "loop_wake"} /\ ev'.id = i
              /\ ev'.iterated /\ ~ev'.acquired)
                => LET before == IF ev'.kind = "loop_start"
                                 THEN LoopEntry(Now, gimbal_setting) ELSE Locals(i)
                   IN  /\ ~ev'.detector /\ ~ev'.detected /\ ~ev'.dispatched
                       /\ ev'.reports = <<>> /\ ~ev'.flushed
                       /\ frame_count'[i] = before.frame_count
                       /\ tag_count'[i] = before.tag_count
                       /\ sent_count'[i] = before.sent_count
                       /\ last_send_time'[i] = before.last_send_time
                       /\ last_log_time'[i] = before.last_log_time
                       /\ ev'.sleep = 10
                       /\ pc'[i] = "sleeping"
          /\ (ev'.kind = "loop_wake" /\ ev'.id = i)
                => /\ ev'.iterated <=> precision_landing_running
                   /\ ev'.exited <=> ~precision_landing_running]_vars

\* A failed acquisition with a flush and an idle back-off due, which an
\* iteration with a frame would have run.
C29_Witness ==
    /\ ev.kind = "loop_wake" /\ ev.iterated /\ ~ev.acquired
    /\ ev.sleep = 10 /\ pc[ev.id] = "sleeping"
    /\ frame_count[ev.id] = 1
    /\ Now - last_send_time[ev.id] > IDLE_SEND_MS
    /\ Now - last_log_time[ev.id] > LOG_INTERVAL_MS

C31_ResetKeepsLoop ==
    [][\A i \in LoopIds :
          (/\ ev'.kind \in {"loop_start", "loop_wake"} /\ ev'.id = i
           /\ ev'.reset)
             => LET before == IF ev'.kind = "loop_start"
                              THEN LoopEntry(Now, gimbal_setting) ELSE Locals(i)
                IN  /\ precision_landing_running'
                    /\ frame_count'[i] = before.frame_count
                    /\ tag_count'[i] = before.tag_count
                    /\ sent_count'[i] = before.sent_count
                    /\ last_send_time'[i] = before.last_send_time
                    /\ ~ev'.exited /\ Active(i)'
                    /\ pc'[i] = "sleeping" /\ ev'.sleep = 10]_vars

C31_Witness ==
    /\ ev.kind = "loop_wake" /\ ev.reset /\ ~ev.exited
    /\ precision_landing_running
    /\ pc[ev.id] = "sleeping"
    /\ frame_count[ev.id] = 1
    /\ Now - last_send_time[ev.id] = WATCHDOG_MS + TickMs

\* C32: an iteration that begins more than 5 s after the start of the
\* statistics window performs the log flush: the counters are 0 and the
\* window starts anew when it ends, whether it acquired a frame or not and
\* whether it ended in a caught error or not.
C32_FlushDue ==
    [][\A i \in LoopIds :
          (/\ ev'.kind = "loop_wake" /\ ev'.id = i /\ ev'.iterated
           /\ Now - last_log_time[i] > LOG_INTERVAL_MS)
             => /\ ev'.flushed
                /\ frame_count'[i] = 0 /\ tag_count'[i] = 0 /\ sent_count'[i] = 0
                /\ last_log_time'[i] = Now]_vars

C34_CounterOrder ==
    \A i \in LoopIds :
       Active(i) => /\ 0 <= sent_count[i]
                    /\ sent_count[i] <= tag_count[i]
                    /\ tag_count[i] <= frame_count[i]

\* A live instance that counted a frame, its tag and the report of it.
C34_Witness ==
    \E i \in LoopIds :
       /\ Active(i) /\ pc[i] = "sleeping"
       /\ frame_count[i] = 1 /\ tag_count[i] = 1 /\ sent_count[i] = 1
       /\ ev.iterated /\ ev.id = i /\ ev.result = "sent"

\* C35: when calculate_vertical_fov returns 0.0 for an acquired frame the
\* detector is still invoked, and a detection is still reported: one message
\* goes out, and its angle_x, angle_y, size_x and size_y are 0 wherever the
\* tag lies in the image.
C35_ZeroVfovReport ==
    (/\ ev.kind = "geometry" /\ ev.geom.f = "send_landing_target"
     /\ ev.geom.out.camera_vfov = Zero)
       => /\ ev.detector
          /\ ev.detected =>
                /\ ev.dispatched
                /\ Len(ev.geom.out.reports) = 1
                /\ LET m == ev.geom.out.reports[1] IN
                   /\ m.angle_x = Zero /\ m.angle_y = Zero
                   /\ m.size_x = Zero /\ m.size_y = Zero

\* A tag off the centre of a frame of 640 x 480, the horizontal field of
\* view at 180 degrees.
C35_Witness ==
    /\ ev.kind = "geometry" /\ ev.geom.f = "send_landing_target"
    /\ ev.geom.args = <<700, 0, 40, 40, 640, 480, 180>>
    /\ ev.geom.out.camera_vfov = Zero
    /\ ev.detected /\ ev.dispatched
    /\ ev.geom.out.reports[1].angle_x = Zero

\* C36: in the Starting phase the probe is sent to the gateway only after
\* the validation capture succeeded; the orientation stream is requested
\* only after the probe succeeded and only if the orientation query failed;
\* and a Starting phase whose capture and probe succeeded enters the loop
\* whatever the orientation query answered.
C36_StartingOrder ==
    ev.kind = "loop_start" =>
       /\ ev.probed => ev.outcome \in {"probe_failed", "ok"}
       /\ ev.probed <=> ev.probe # <<>>
       /\ ev.attitude # "none" => (ev.probed /\ ev.outcome = "ok")
       /\ ev.requested => (ev.outcome = "ok" /\ ev.attitude = "failed")
       /\ ev.outcome = "ok" =>
             /\ ev.attitude \in {"ok", "failed"}
             /\ ev.iterated /\ ~ev.exited
             /\ Active(ev.id) /\ precision_landing_running

\* The orientation query failed, the stream was requested, the loop runs.
C36_Witness ==
    /\ ev.kind = "loop_start" /\ ev.outcome = "ok" /\ ev.probed
    /\ ev.attitude = "failed" /\ ev.requested
    /\ ev.iterated /\ pc[ev.id] = "sleeping" /\ precision_landing_running

\* C37: the built-in default settings are constant: whatever calls of
\* get_settings, update_camera_rtsp and update_precision_landing_enabled
\* have run, with the settings file there or not, DEFAULT_SETTINGS holds the
\* values it was loaded with, and a read that falls back to the defaults
\* returns them.
C37_DefaultsConstant ==
    /\ default_settings = PRISTINE_SETTINGS
    /\ (ev.kind = "get_enabled" /\ settings_file.state # "json")
          => ev.enabled = PRISTINE_SETTINGS.enabled

\* C38: capture_frame_from_stream raises nothing and leaves no handle open:
\* when it has returned, on every path, a handle it made is released, and
\* every outcome but a frame is reported as a result with success = False.
C38_CaptureReleases ==
    ev.kind = "capture"
       => LET out == ev.geom.out IN
          /\ ~out.raises
          /\ out.handle # "open"
          /\ CapMade(ev.outcome) => out.handle = "released"
          /\ out.result.success <=> ev.outcome = "frame"

\* read() raises on an open handle.
C38_Witness ==
    /\ ev.kind = "capture"
    /\ ev.outcome = "read_raises"
    /\ ev.geom.out.handle = "released"
    /\ ~ev.geom.out.result.success

\* C39: get_settings raises nothing; when the settings file is not there it
\* returns the built-in defaults and, if the write goes through, leaves a
\* file that holds them; when the file cannot be read or parsed it returns
\* the built-in defaults.
C39_GetSettings ==
    [][ev'.kind = "get_settings" =>
          /\ ev'.result = "success"
          /\ settings_file.state # "json" =>
                ev'.geom.out = PRISTINE_SETTINGS
          /\ (settings_file.state = "missing" /\ ev'.outcome = "ok") =>
                settings_file' = Json(PRISTINE_SETTINGS)]_vars
====
